---- MODULE Spec2Model ----
(***************************************************************************)
(* A model of pyntc's F5 TMOS device driver (pyntc/devices/f5_device.py):  *)
(* the free-space precondition, the image/volume inventory check, the      *)
(* install and reboot polling loops, the chunked image upload and the      *)
(* remote-file verification.                                               *)
(*                                                                         *)
(* Python values are records tagged by their type (field t); the outcome   *)
(* of a call is a record tagged "return" or "raise".  Time is in seconds,  *)
(* measured from the moment a polling loop reads the clock for the first   *)
(* time.  Free space is a decimal number kept as (mantissa, number of      *)
(* fractional digits), so that comparisons with an integer are exact.      *)
(***************************************************************************)
EXTENDS Integers, Sequences, FiniteSets, TLC

VARIABLES
    pc,          \* position of the single thread of control
    call,        \* the operation in progress, or the last one made, with its arguments
    result,      \* outcome of the last finished operation
    pyMajor,     \* major version of the Python interpreter running the driver
    report,      \* what the appliance answers to 'vgdisplay -s --units G'
    images,      \* the appliance's software images (get_collection())
    volumes,     \* the appliance's software volumes (get_collection())
    localFS,     \* the local files: path -> content, or NoFile
    remoteFS,    \* the files of /shared/images on the appliance: name -> content, or NoFile
    shell,       \* whether the appliance's shell commands (ls, md5sum) produce output
    phase,       \* the appliance: whether it is up (reachable) and how often it has restarted
    session,     \* self.api_handler: the credentials and the appliance boot it was opened in
    cmds,        \* commands issued to the appliance so far, in order
    now,         \* time.time(), relative to the start of the polling loop
    end_time,    \* deadline of the polling loop in progress
    probes,      \* the probes of the polling loop in progress: how many, how many raised,
                 \* and the session the last one loaded the volume on
    fileobj,     \* the image file being uploaded: its bytes and the read position
    upload,      \* _upload_image's locals: chunk_size, size, start
    requests     \* the POST requests sent so far, in order

ctlVars == <<pc, call, result>>
pollVars == <<now, end_time, probes>>
applianceVars == <<report, images, volumes, remoteFS, shell, phase>>
hostVars == <<pyMajor, localFS>>
uploadVars == <<fileobj, upload, requests>>

vars == <<pc, call, result, pyMajor, report, images, volumes, localFS, remoteFS, shell,
          phase, session, cmds, now, end_time, probes, fileobj, upload, requests>>

----------------------------------------------------------------------------
(* Python values and call outcomes *)

PyNone == [t |-> "None"]
PyBool(b) == [t |-> "bool", b |-> b]
PyStr(s) == [t |-> "str", s |-> s]
PyFloat(m, f) == [t |-> "float", mant |-> m, frac |-> f]

Return(v) == [kind |-> "return", val |-> v]
Raise(e, m) == [kind |-> "raise", exc |-> e, msg |-> m]
NoResult == [kind |-> "none"]

Returned(r, b) == r.kind = "return" /\ r.val.t = "bool" /\ r.val.b = b
Raised(r, e) == r.kind = "raise" /\ r.exc = e

ImageNames == {"A.iso", "B.iso"}
VolumeNames == {"HD1.1", "HD1.2"}
Versions == {"11.6.0", "12.1.0"}
Builds == {"0.0.401", "1.0.7"}
Statuses == {"complete", "installing"}

SeqsUpTo(S, n) == UNION {[1..k -> S] : k \in 0..n}

RECURSIVE Pow10(_)
Pow10(n) == IF n = 0 THEN 1 ELSE 10 * Pow10(n - 1)

----------------------------------------------------------------------------
(* The disk-usage report.  A result text is the concatenation of            *)
(*   "<anything> / "  (when pre),  the characters of num,  " GB free]"      *)
(* (when post).  The characters of num are digits and dots.                *)

Digits == {"0", "5", "6", "7"}
NumChars == Digits \cup {"."}

DigitVal(c) == CASE c = "0" -> 0 [] c = "5" -> 5 [] c = "6" -> 6 [] c = "7" -> 7

MaxNumLen == 4

Text(pre, num, post) == [pre |-> pre, num |-> num, post |-> post]
EmptyText == Text(FALSE, <<>>, FALSE)

\* The object exec_cmd returns, or None.
CmdOutput(text) == [t |-> "obj", commandResult |-> text]

DotPositions(num) == {i \in 1..Len(num) : num[i] = "."}

\* \d+\.?\d+ against the whole of num
NumMatches(num) ==
    /\ Len(num) >= 2
    /\ Cardinality(DotPositions(num)) <= 1
    /\ num[1] # "."
    /\ num[Len(num)] # "."

\* re.match('.*\s\/\s(\d+\.?\d+) GB free', text)
FreeSpaceRegexMatches(text) == text.pre /\ text.post /\ NumMatches(text.num)

RECURSIVE Mantissa(_)
Mantissa(num) ==
    IF num = <<>> THEN 0
    ELSE LET front == SubSeq(num, 1, Len(num) - 1)
             last == num[Len(num)]
         IN IF last = "." THEN Mantissa(front) ELSE 10 * Mantissa(front) + DigitVal(last)

\* float(match.group(1))
ParseFloat(num) ==
    LET dots == DotPositions(num)
        frac == IF dots = {} THEN 0 ELSE Len(num) - (CHOOSE i \in dots : TRUE)
    IN PyFloat(Mantissa(num), frac)

\* Python truthiness of the values free_space can hold
Truthy(v) ==
    CASE v.t = "None" -> FALSE
      [] v.t = "obj" -> TRUE
      [] v.t = "bool" -> v.b
      [] v.t = "float" -> v.mant # 0
      [] v.t = "str" -> v.s # EmptyText

_get_free_space(output) ==
    IF ~Truthy(output) THEN PyNone
    ELSE IF FreeSpaceRegexMatches(output.commandResult)
         THEN ParseFloat(output.commandResult.num)
         ELSE PyStr(output.commandResult)

\* min_space < free_space, for an int min_space and a float free_space
IntLtFloat(n, f) == n * Pow10(f.frac) < f.mant

\* min_space < free_space as the interpreter evaluates it: "raise" stands for TypeError.
\* Python 2 orders every number before every string; Python 3 refuses the comparison.
MinSpaceLess(min_space, free_space, py) ==
    CASE free_space.t = "float" -> IF IntLtFloat(min_space, free_space) THEN "true" ELSE "false"
      [] free_space.t = "str" -> IF py = 2 THEN "true" ELSE "raise"

_check_free_space_wrong_sense(output, min_space, py) ==
    LET free_space == _get_free_space(output) IN
    IF ~Truthy(free_space) THEN Raise("ValueError", "Could not get free space")
    ELSE LET lt == MinSpaceLess(min_space, free_space, py) IN
         CASE lt = "raise" -> Raise("TypeError", "unorderable types")
           [] lt = "true" -> Return(PyBool(TRUE))
           [] lt = "false" -> Return(PyBool(FALSE))

_check_free_space(output, min_space, py) ==
    LET free_space == _get_free_space(output) IN
    IF ~Truthy(free_space) THEN Raise("ValueError", "Could not get free space")
    ELSE LET lt == MinSpaceLess(min_space, free_space, py) IN
         CASE lt = "raise" -> Raise("TypeError", "unorderable types")
           [] lt = "true" -> Return(PyBool(FALSE))
           [] lt = "false" -> Return(PyBool(TRUE))

----------------------------------------------------------------------------
(* The free-space functions called on their own, over every report *)

MaxMinSpace == 7

Reports ==
    {PyNone} \cup
    {CmdOutput(Text(pre, num, post)) :
        pre \in BOOLEAN, num \in SeqsUpTo(NumChars, MaxNumLen), post \in BOOLEAN}

NoFile == "absent"
LocalPaths == {"/tmp/A.iso", "/tmp/B.iso"}

Credentials == [hostname |-> "bigip1", username |-> "admin", password |-> "secret"]

\* ManagementRoot(self.hostname, self.username, self.password), opened in appliance boot b
ManagementRoot(hostname, username, password, b) ==
    [hostname |-> hostname, username |-> username, password |-> password, boot |-> b]

NoInventory == images = <<>> /\ volumes = <<>>
NoFiles ==
    /\ localFS = [p \in LocalPaths |-> NoFile]
    /\ remoteFS = [n \in ImageNames |-> NoFile]
    /\ shell = [ls |-> "ok", md5sum |-> "ok"]
\* No session has been queried by a probe
NotLoaded == [hostname |-> "-", username |-> "-", password |-> "-", boot |-> -1]
NoProbes == [made |-> 0, raised |-> 0, load_on |-> NotLoaded]
NoPoll == now = 0 /\ end_time = 0 /\ probes = NoProbes
NoUpload ==
    /\ fileobj = [bytes |-> <<>>, pos |-> 0]
    /\ upload = [chunk_size |-> 1, size |-> 0, start |-> 0]
    /\ requests = <<>>
\* __init__: the session is opened with the credentials given
Constructed ==
    /\ phase = [up |-> TRUE, boot |-> 0]
    /\ session = ManagementRoot(Credentials.hostname, Credentials.username,
                                Credentials.password, 0)
    /\ cmds = <<>>

InitSpace ==
    /\ pc = "idle"
    /\ call = [op |-> "none"]
    /\ result = NoResult
    /\ pyMajor \in {2, 3}
    /\ report \in Reports
    /\ NoInventory
    /\ NoFiles
    /\ Constructed
    /\ NoPoll
    /\ NoUpload

GetFreeSpaceCall ==
    /\ pc = "idle"
    /\ call' = [op |-> "_get_free_space"]
    /\ result' = Return(_get_free_space(report))
    /\ UNCHANGED <<pc, hostVars, applianceVars, session, cmds, pollVars, uploadVars>>

CheckFreeSpaceCall ==
    /\ pc = "idle"
    /\ \E min_space \in 0..MaxMinSpace :
        /\ call' = [op |-> "_check_free_space", min_space |-> min_space]
        /\ result' = _check_free_space(report, min_space, pyMajor)
    /\ UNCHANGED <<pc, hostVars, applianceVars, session, cmds, pollVars, uploadVars>>

NextSpace == GetFreeSpaceCall \/ CheckFreeSpaceCall

SpecSpace == InitSpace /\ [][NextSpace]_vars

\* The report is present and its text has the expected form '... / <free> GB free'.
ReportParses == report.t = "obj" /\ FreeSpaceRegexMatches(report.commandResult)
\* The number the report gives, as (mant, frac): mant / 10^frac
ReportFree == ParseFloat(report.commandResult.num)
FreeAtLeast(n) == ReportFree.mant >= n * Pow10(ReportFree.frac)
FreeMoreThan(n) == ReportFree.mant > n * Pow10(ReportFree.frac)
FreeEquals(n) == ReportFree.mant = n * Pow10(ReportFree.frac)

\* C8 (as claimed): the free-space check raises 'Could not get free space' whenever the
\* report is absent or does not have the expected form, and never when the report
\* parses to a number.
C8_UnavailableIffUnparsable ==
    call.op = "_check_free_space" =>
        (Raised(result, "ValueError") <=> ~ReportParses)

----------------------------------------------------------------------------
(* The inventory: images and volumes as the appliance lists them *)

Image(fullPath, version, build) ==
    [fullPath |-> fullPath, version |-> version, build |-> build]

\* active is "true", "false" or "absent" (the attribute is missing)
Volume(name, version, basebuild, status, active) ==
    [name |-> name, version |-> version, basebuild |-> basebuild,
     status |-> status, active |-> active]

MaxImages == 2
MaxVolumes == 2

SetMax(S) == CHOOSE x \in S : \A y \in S : y <= x
SetMin(S) == CHOOSE x \in S : \A y \in S : x <= y

VolumeHolds_ignores_status(_volume, volume, image) ==
    /\ _volume.name = volume
    /\ _volume.version = image.version
    /\ _volume.basebuild = image.build

\* _volume.name == volume and _volume.version == image.version and
\* _volume.basebuild == image.build and _volume.status == 'complete'
VolumeHolds(_volume, volume, image) ==
    /\ _volume.name = volume
    /\ _volume.version = image.version
    /\ _volume.basebuild = image.build
    /\ _volume.status = "complete"

\* The loop keeps the last image of the list whose fullPath is image_name.
_image_installed(imgs, vols, image_name, volume) ==
    LET found == {i \in 1..Len(imgs) : imgs[i].fullPath = image_name} IN
    IF found = {} THEN FALSE
    ELSE LET image == imgs[SetMax(found)] IN
         \E j \in 1..Len(vols) : VolumeHolds(vols[j], volume, image)

_volume_exists(vols, volume_name) == \E j \in 1..Len(vols) : vols[j].name = volume_name

\* The name of the first volume that has the attribute active, set to True; None if none.
_get_active_volume(vols) ==
    LET act == {j \in 1..Len(vols) : vols[j].active = "true"} IN
    IF act = {} THEN PyNone ELSE PyStr(vols[SetMin(act)].name)

\* The image lists an appliance can report: fullPath is the key of an image.
ImageLists ==
    {imgs \in SeqsUpTo({Image(n, v, b) : n \in ImageNames, v \in Versions, b \in Builds},
                       MaxImages) :
        \A i, j \in 1..Len(imgs) : imgs[i].fullPath = imgs[j].fullPath => i = j}

VolumeLists ==
    SeqsUpTo({Volume(n, v, b, s, "absent") :
                 n \in VolumeNames, v \in Versions, b \in Builds, s \in Statuses},
             MaxVolumes)

InitInventory ==
    /\ pc = "idle"
    /\ call = [op |-> "none"]
    /\ result = NoResult
    /\ pyMajor = 3
    /\ report = PyNone
    /\ images \in ImageLists
    /\ volumes \in VolumeLists
    /\ NoFiles
    /\ Constructed
    /\ NoPoll
    /\ NoUpload

ImageInstalledCall ==
    /\ pc = "idle"
    /\ \E image_name \in ImageNames, volume \in VolumeNames :
        /\ call' = [op |-> "_image_installed", image_name |-> image_name, volume |-> volume]
        /\ result' = Return(PyBool(_image_installed(images, volumes, image_name, volume)))
    /\ UNCHANGED <<pc, hostVars, applianceVars, session, cmds, pollVars, uploadVars>>

VolumeExistsCall ==
    /\ pc = "idle"
    /\ \E volume \in VolumeNames :
        /\ call' = [op |-> "_volume_exists", volume |-> volume]
        /\ result' = Return(PyBool(_volume_exists(volumes, volume)))
    /\ UNCHANGED <<pc, hostVars, applianceVars, session, cmds, pollVars, uploadVars>>

NextInventory == ImageInstalledCall \/ VolumeExistsCall

SpecInventory == InitInventory /\ [][NextInventory]_vars

\* C2: _image_installed(image_name, volume) returns True exactly when an image with
\* fullPath image_name is listed and some listed volume has name volume, that image's
\* version as version, that image's build as basebuild, and status 'complete'; one
\* mismatching field, or no such image, gives False.
C2_ImageInstalledIff ==
    call.op = "_image_installed" =>
        (Returned(result, TRUE) <=>
            \E i \in 1..Len(images), j \in 1..Len(volumes) :
                /\ images[i].fullPath = call.image_name
                /\ volumes[j].name = call.volume
                /\ volumes[j].version = images[i].version
                /\ volumes[j].basebuild = images[i].build
                /\ volumes[j].status = "complete")
        /\ (Returned(result, TRUE) \/ Returned(result, FALSE))

\* The image is listed and the volume agrees with it in name, version and basebuild,
\* yet its status is not 'complete': the answer is False.
C2_Witness ==
    /\ call.op = "_image_installed"
    /\ Returned(result, FALSE)
    /\ \E i \in 1..Len(images), j \in 1..Len(volumes) :
        /\ images[i].fullPath = call.image_name
        /\ volumes[j].name = call.volume
        /\ volumes[j].version = images[i].version
        /\ volumes[j].basebuild = images[i].build
        /\ volumes[j].status # "complete"

----------------------------------------------------------------------------
(* Checksums and the image store /shared/images *)

Contents == {"c1", "c2"}

Basename(path) == CASE path = "/tmp/A.iso" -> "A.iso" [] path = "/tmp/B.iso" -> "B.iso"

\* An MD5 hex digest: equal for equal contents, different for different contents.
Md5(content) == [tok |-> "md5", of |-> content]
\* The first word of md5sum's complaint about a missing file
Md5sumComplaint == [tok |-> "md5sum:", of |-> "-"]

\* == between two values that are None or a str
PyEq(a, b) == a.t = b.t /\ (a.t = "str" => a.s = b.s)

_file_copy_local_file_exists_always(fs, filepath) == TRUE
\* os.path.isfile(filepath)
_file_copy_local_file_exists(fs, filepath) == fs[filepath] # NoFile

\* Falls off its end, returning None, when the file does not exist.
_file_copy_local_md5(fs, filepath) ==
    IF _file_copy_local_file_exists(fs, filepath)
    THEN PyStr(Md5(fs[filepath]))
    ELSE PyNone

\* What 'md5sum /shared/images/<name>' prints, word by word (commandResult.split())
Md5sumWords(rfs, sh, name) ==
    IF sh.md5sum = "blank" THEN <<>>
    ELSE IF rfs[name] = NoFile THEN <<Md5sumComplaint, name>>
    ELSE <<Md5(rfs[name]), name>>

_file_copy_remote_md5(rfs, sh, name) ==
    IF sh.md5sum = "none" THEN Return(PyNone)
    ELSE LET words == Md5sumWords(rfs, sh, name) IN
         IF words = <<>> THEN Raise("IndexError", "list index out of range")
         ELSE Return(PyStr(words[1]))

_check_md5sum_always_true(rfs, sh, name, checksum) ==
    LET md5sum == _file_copy_remote_md5(rfs, sh, name) IN
    IF md5sum.kind = "raise" THEN md5sum
    ELSE Return(PyBool(TRUE))

_check_md5sum(rfs, sh, name, checksum) ==
    LET md5sum == _file_copy_remote_md5(rfs, sh, name) IN
    IF md5sum.kind = "raise" THEN md5sum
    ELSE Return(PyBool(PyEq(checksum, md5sum.val)))

\* 'ls /shared/images': None when the command gives nothing, else whether the name is a line
_image_exists(rfs, sh, image_name) ==
    IF sh.ls = "none" THEN PyNone
    ELSE PyBool(rfs[image_name] # NoFile)

_image_match(rfs, sh, image_name, checksum) ==
    IF Truthy(_image_exists(rfs, sh, image_name))
    THEN LET ok == _check_md5sum(rfs, sh, image_name, checksum) IN
         IF ok.kind = "raise" THEN ok
         ELSE Return(PyBool(ok.val.b))
    ELSE Return(PyBool(FALSE))

file_copy_remote_exists(fs, rfs, sh, src, dest) ==
    IF dest.t # "None"
    THEN Raise("NotImplementedError",
               "Support only for images - destination is always /shared/images")
    ELSE LET local_md5sum == _file_copy_local_md5(fs, src)
             file_basename == Basename(src)
             match == _image_match(rfs, sh, file_basename, local_md5sum)
         IN IF match.kind = "raise" THEN match
            ELSE Return(PyBool(match.val.b))

----------------------------------------------------------------------------
(* set_boot_options: the free-space gate, the install command, the polling *)

min_space_install == 6
install_timeout == 900
install_interval == 20

MaxCmds == 2

InstallError == "Installation failed"
NoSpaceError == "Not enough free space to install OS"

_image_install_always_creates(vols, image_name, volume) ==
    [cmd |-> "install", name |-> image_name, volume |-> volume,
     options |-> {"create-volume"}]

\* The install command as _image_install sends it
_image_install(vols, image_name, volume) ==
    LET create_volume == ~_volume_exists(vols, volume) IN
    [cmd |-> "install", name |-> image_name, volume |-> volume,
     options |-> IF create_volume THEN {"create-volume"} ELSE {}]

\* Lines 379-383: what stops set_boot_options before the install command, if anything
SpaceGate(output, py) ==
    LET free_space == _check_free_space(output, min_space_install, py) IN
    IF free_space.kind = "raise" THEN free_space
    ELSE IF ~Truthy(free_space.val) THEN Raise("RuntimeError", NoSpaceError)
    ELSE Return(PyNone)

\* The loop test of _wait_for_image_installed: time.time() < end_time
LoopTest_or_equal(t, deadline) == t <= deadline
LoopTest(t, deadline) == t < deadline

AfterSleep_oversleeps(t, seconds) == t + 2 * seconds
\* time.time() once time.sleep(seconds) has returned
AfterSleep(t, seconds) == t + seconds

\* The locals of an earlier polling loop are gone when another operation is called.
ResetPoll == now' = 0 /\ end_time' = 0 /\ probes' = NoProbes

StartPoll_late_deadline(timeout) ==
    /\ now' = 0
    /\ end_time' = now' + timeout + 1
    /\ probes' = NoProbes

\* end_time = time.time() + timeout, before the first turn of the loop
StartPoll(timeout) ==
    /\ now' = 0
    /\ end_time' = now' + timeout
    /\ probes' = NoProbes

SetBootOptionsCall ==
    /\ pc = "idle"
    /\ Len(cmds) < MaxCmds
    /\ \E image_name \in ImageNames, volume \in VolumeNames :
        LET gate == SpaceGate(report, pyMajor) IN
        /\ call' = [op |-> "set_boot_options", image_name |-> image_name,
                    volume |-> volume, base |-> Len(cmds)]
        /\ IF gate.kind = "raise"
           THEN /\ result' = gate
                /\ ResetPoll
                /\ UNCHANGED <<pc, cmds>>
           ELSE /\ cmds' = Append(cmds, _image_install(volumes, image_name, volume))
                /\ StartPoll(install_timeout)
                /\ pc' = "wait_install"
                /\ result' = NoResult
    /\ UNCHANGED <<hostVars, applianceVars, session, uploadVars>>

DirectTimeouts == {0, 10, 20, 50}

WaitForImageInstalledCall ==
    /\ pc = "idle"
    /\ \E image_name \in ImageNames, volume \in VolumeNames, timeout \in DirectTimeouts :
        /\ call' = [op |-> "_wait_for_image_installed", image_name |-> image_name,
                    volume |-> volume, base |-> Len(cmds)]
        /\ StartPoll(timeout)
    /\ pc' = "wait_install"
    /\ result' = NoResult
    /\ UNCHANGED <<hostVars, applianceVars, session, cmds, uploadVars>>

\* What the caller of _wait_for_image_installed makes of its answer
InstallOutcome(installed) ==
    IF call.op = "set_boot_options"
    THEN IF installed THEN Return(PyNone) ELSE Raise("RuntimeError", InstallError)
    ELSE Return(PyBool(installed))

\* One turn of the loop: sleep, then ask the inventory
InstallProbe ==
    /\ pc = "wait_install"
    /\ LoopTest(now, end_time)
    /\ now' = AfterSleep(now, install_interval)
    /\ probes' = [probes EXCEPT !.made = @ + 1]
    /\ IF _image_installed(images, volumes, call.image_name, call.volume)
       THEN pc' = "idle" /\ result' = InstallOutcome(TRUE)
       ELSE UNCHANGED <<pc, result>>
    /\ UNCHANGED <<call, hostVars, applianceVars, session, cmds, end_time, uploadVars>>

InstallExpired_reissues ==
    /\ pc = "wait_install"
    /\ ~LoopTest(now, end_time)
    /\ pc' = "idle"
    /\ result' = InstallOutcome(FALSE)
    /\ cmds' = Append(cmds, _image_install(volumes, call.image_name, call.volume))
    /\ UNCHANGED <<call, hostVars, applianceVars, session, pollVars, uploadVars>>

\* Line 237: the loop is left when the deadline has passed
InstallExpired ==
    /\ pc = "wait_install"
    /\ ~LoopTest(now, end_time)
    /\ pc' = "idle"
    /\ result' = InstallOutcome(FALSE)
    /\ UNCHANGED <<call, hostVars, applianceVars, session, cmds, pollVars, uploadVars>>

FileCopyRemoteExistsCall ==
    /\ pc = "idle"
    /\ \E src \in LocalPaths, dest \in {PyNone, PyStr("/tmp")} :
        /\ call' = [op |-> "file_copy_remote_exists", src |-> src, dest |-> dest,
                    base |-> Len(cmds)]
        /\ result' = file_copy_remote_exists(localFS, remoteFS, shell, src, dest)
    /\ ResetPoll
    /\ UNCHANGED <<pc, hostVars, applianceVars, session, cmds, uploadVars>>

\* A direct call of _file_copy_local_md5
FileCopyLocalMd5Call ==
    /\ pc = "idle"
    /\ \E filepath \in LocalPaths :
        /\ call' = [op |-> "_file_copy_local_md5", filepath |-> filepath,
                    base |-> Len(cmds)]
        /\ result' = Return(_file_copy_local_md5(localFS, filepath))
    /\ ResetPoll
    /\ UNCHANGED <<pc, hostVars, applianceVars, session, cmds, uploadVars>>

\* The appliance completes an installation it was asked for: the volume now holds the
\* image's version and build, with status 'complete'.
InstalledVolume(image, name) ==
    Volume(name, image.version, image.build, "complete", "absent")

ApplianceFinishesInstall ==
    /\ \E k \in 1..Len(cmds), i \in 1..Len(images) :
        /\ cmds[k].cmd = "install"
        /\ images[i].fullPath = cmds[k].name
        /\ LET vol == cmds[k].volume
               at == {j \in 1..Len(volumes) : volumes[j].name = vol}
           IN volumes' =
                IF at = {}
                THEN Append(volumes, InstalledVolume(images[i], vol))
                ELSE [j \in 1..Len(volumes) |->
                        IF j \in at
                        THEN [volumes[j] EXCEPT !.version = images[i].version,
                                                !.basebuild = images[i].build,
                                                !.status = "complete"]
                        ELSE volumes[j]]
    /\ volumes' # volumes
    /\ UNCHANGED <<ctlVars, hostVars, report, images, remoteFS, shell, phase, session,
                   cmds, pollVars, uploadVars>>

Report(num) == CmdOutput(Text(TRUE, num, TRUE))

\* Reports of an appliance about to be upgraded: none, an unexpected text, and
\* 0.0, 5.0, 6.0 and 7.50 GB free
InstallReports ==
    {PyNone, CmdOutput(Text(FALSE, <<"7", ".", "5">>, TRUE)),
     Report(<<"0", ".", "0">>), Report(<<"5", ".", "0">>), Report(<<"6", ".", "0">>),
     Report(<<"7", ".", "5", "0">>)}

ImageA == Image("A.iso", "12.1.0", "1.0.7")
VolumeOld(name, active) == Volume(name, "11.6.0", "0.0.401", "complete", active)

VolumeLists_install ==
    {<<VolumeOld("HD1.1", "true")>>,
     <<VolumeOld("HD1.1", "true"), VolumeOld("HD1.2", "absent")>>,
     <<VolumeOld("HD1.1", "true"), Volume("HD1.2", "12.1.0", "1.0.7", "complete", "absent")>>}

\* Two families of starting points: every disk report and inventory with no image file
\* in play, and every state of the image files and of the shell with 5.0 GB free.
InitInstall ==
    /\ pc = "idle"
    /\ call = [op |-> "none"]
    /\ result = NoResult
    /\ \/ /\ pyMajor \in {2, 3}
          /\ report \in InstallReports
          /\ images \in {<<>>, <<ImageA>>}
          /\ volumes \in VolumeLists_install
          /\ NoFiles
       \/ /\ pyMajor = 3
          /\ report = Report(<<"5", ".", "0">>)
          /\ images = <<ImageA>>
          /\ volumes = <<VolumeOld("HD1.1", "true")>>
          /\ localFS \in {fs \in [LocalPaths -> Contents \cup {NoFile}] :
                              fs["/tmp/B.iso"] = NoFile}
          /\ remoteFS \in {fs \in [ImageNames -> Contents \cup {NoFile}] :
                               fs["B.iso"] = NoFile}
          /\ shell \in [ls : {"ok", "none"}, md5sum : {"ok", "none", "blank"}]
    /\ Constructed
    /\ NoPoll
    /\ NoUpload

Next ==
    \/ SetBootOptionsCall
    \/ WaitForImageInstalledCall
    \/ InstallProbe
    \/ InstallExpired
    \/ FileCopyRemoteExistsCall
    \/ FileCopyLocalMd5Call
    \/ ApplianceFinishesInstall

Spec == InitInstall /\ [][Next]_vars

InstallIssued == Len(cmds) > call.base

\* C1 (as claimed): set_boot_options issues the install command only with at least
\* 6 GB free; below 6 GB it fails with an error and issues no install command, and
\* with 6 GB or more it goes on to issue it.
C1_InstallIffSixGB ==
    (call.op = "set_boot_options" /\ ReportParses) =>
        /\ InstallIssued <=> FreeAtLeast(min_space_install)
        /\ ~FreeAtLeast(min_space_install) => (pc = "idle" /\ result.kind = "raise")

InstallSucceeded ==
    /\ pc = "idle"
    /\ \/ call.op = "set_boot_options" /\ result.kind = "return"
       \/ call.op = "_wait_for_image_installed" /\ Returned(result, TRUE)

InstallTimedOut ==
    /\ pc = "idle"
    /\ \/ call.op = "set_boot_options" /\ Raised(result, "RuntimeError")
                                       /\ result.msg = InstallError
       \/ call.op = "_wait_for_image_installed" /\ Returned(result, FALSE)

\* The number of probes that found the image not installed
NotInstalledProbes == IF InstallSucceeded THEN probes.made - 1 ELSE probes.made

\* C3: with N probes answering not-installed before the first one answering installed,
\* one probe every 20 s, the install succeeds if N * 20 < timeout and ends with the
\* install-timeout error if N * 20 >= timeout.
C3_InstallPolling ==
    /\ InstallSucceeded => NotInstalledProbes * install_interval < end_time
    /\ InstallTimedOut => NotInstalledProbes * install_interval >= end_time

\* set_boot_options succeeds on the last probe the timeout allows: N = 44, 880 < 900.
C3_Witness ==
    /\ InstallSucceeded
    /\ call.op = "set_boot_options"
    /\ (NotInstalledProbes + 1) * install_interval = install_timeout

\* The local file and the remote file both have a digest, and the digests differ.
DigestsDiffer(src) ==
    /\ localFS[src] # NoFile
    /\ remoteFS[Basename(src)] # NoFile
    /\ localFS[src] # remoteFS[Basename(src)]

C13_CreateVolumeIffAbsent ==
    [][(call'.op = "set_boot_options" /\ Len(cmds') = Len(cmds) + 1) =>
          LET command == cmds'[Len(cmds')]
              exists == \E j \in 1..Len(volumes) : volumes[j].name = call'.volume
          IN /\ command.cmd = "install"
             /\ command.name = call'.image_name
             /\ command.volume = call'.volume
             /\ command.options = IF exists THEN {} ELSE {"create-volume"}]_vars

\* HD1.2 was installed to twice: created by the first command, and named without
\* any option by the second, the appliance having created it in between.
C13_Witness ==
    /\ Len(cmds) = 2
    /\ cmds[1].volume = "HD1.2" /\ cmds[1].options = {"create-volume"}
    /\ cmds[2].volume = "HD1.2" /\ cmds[2].options = {}

\* C19 (as claimed): file_copy_remote_exists(src) returns True only if the local file
\* exists, its base name is listed in /shared/images, and the remote md5sum produced a
\* digest equal to the local one; it never returns True when the local file is
\* missing or the remote checksum is absent; a mismatch is returned as False.
C19_TrueOnlyOnVerifiedCopy ==
    (pc = "idle" /\ call.op = "file_copy_remote_exists" /\ call.dest.t = "None") =>
        LET local == localFS[call.src]
            remote == remoteFS[Basename(call.src)]
        IN /\ Returned(result, TRUE) =>
                /\ local # NoFile
                /\ shell.ls = "ok" /\ remote # NoFile
                /\ shell.md5sum = "ok" /\ Md5(remote) = Md5(local)
           /\ (local # NoFile /\ shell.ls = "ok" /\ remote # NoFile
                 /\ shell.md5sum = "ok" /\ Md5(remote) # Md5(local)) =>
                Returned(result, FALSE)

----------------------------------------------------------------------------
(* reboot: the choice of command, and the polling across the restart *)

reboot_timeout == 600
reboot_interval == 5

MaxReboots == 1

RebootError == "Reboot to volume failed"

RebootsIssued == Cardinality({k \in 1..Len(cmds) : cmds[k].cmd = "reboot"})

\* Lines 361-364: the volume named in the command, None for a plain reboot
RebootVolumeName_inverted(active, volume) == IF PyEq(active, volume) THEN volume ELSE PyNone
RebootVolumeName(active, volume) == IF PyEq(active, volume) THEN PyNone ELSE volume

\* The reboot command as _reboot_to_volume sends it: with the volume if one is named
_reboot_to_volume(volume_name) ==
    IF volume_name.t = "str"
    THEN [cmd |-> "reboot", volume |-> volume_name]
    ELSE [cmd |-> "reboot", volume |-> PyNone]

\* Line 368: the volume the polling is told to wait for
RebootWaitsFor(volume, volume_name) == volume

ActiveNames(vols) == {vols[j].name : j \in {i \in 1..Len(vols) : vols[i].active = "true"}}

RebootTargets == {PyStr(n) : n \in VolumeNames} \cup {PyNone}

RebootCall ==
    /\ pc = "idle"
    /\ RebootsIssued < MaxReboots
    /\ \E volume \in RebootTargets :
        IF ~phase.up
        THEN \* _get_active_volume cannot reach the appliance
             /\ call' = [op |-> "reboot", volume |-> volume, base |-> Len(cmds),
                         waits_for |-> PyNone, active_then |-> {}, boot_then |-> phase.boot]
             /\ result' = Raise("CommandFailed", "unreachable")
             /\ ResetPoll
             /\ UNCHANGED <<pc, cmds>>
        ELSE LET volume_name == RebootVolumeName(_get_active_volume(volumes), volume) IN
             /\ call' = [op |-> "reboot", volume |-> volume, base |-> Len(cmds),
                         waits_for |-> RebootWaitsFor(volume, volume_name),
                         active_then |-> ActiveNames(volumes), boot_then |-> phase.boot]
             /\ cmds' = Append(cmds, _reboot_to_volume(volume_name))
             /\ StartPoll(reboot_timeout)
             /\ pc' = "wait_reboot"
             /\ result' = NoResult
    /\ UNCHANGED <<hostVars, applianceVars, session, uploadVars>>

WaitForDeviceRebootCall ==
    /\ pc = "idle"
    /\ \E volume_name \in RebootTargets, timeout \in DirectTimeouts :
        /\ call' = [op |-> "_wait_for_device_reboot", volume |-> volume_name,
                    base |-> Len(cmds), waits_for |-> volume_name,
                    active_then |-> ActiveNames(volumes), boot_then |-> phase.boot]
        /\ StartPoll(timeout)
    /\ pc' = "wait_reboot"
    /\ result' = NoResult
    /\ UNCHANGED <<hostVars, applianceVars, session, cmds, uploadVars>>

\* The loop test of _wait_for_device_reboot: time.time() < end_time
RebootLoopTest_or_equal(t, deadline) == t <= deadline
RebootLoopTest(t, deadline) == t < deadline

\* Lines 276-279, the body of the try: "raised" when _reconnect or load raises,
\* else whether the loaded volume has active set to True
ProbeBody(ph, vols, volume_name) ==
    IF ~ph.up THEN "raised"
    ELSE IF volume_name.t # "str" \/ ~_volume_exists(vols, volume_name.s) THEN "raised"
    ELSE LET j == SetMin({i \in 1..Len(vols) : vols[i].name = volume_name.s}) IN
         IF vols[j].active = "true" THEN "active" ELSE "inactive"

\* Lines 279-282: return True, or go round the loop again; 'except Exception: pass'
AfterProbe_propagates(outcome) ==
    CASE outcome = "active" -> "return"
      [] outcome = "inactive" -> "loop"
      [] outcome = "raised" -> "propagate"

AfterProbe(outcome) ==
    CASE outcome = "active" -> "return"
      [] outcome = "inactive" -> "loop"
      [] outcome = "raised" -> "loop"

\* What the caller of _wait_for_device_reboot makes of its answer
RebootOutcome(rebooted) ==
    IF call.op = "reboot"
    THEN IF rebooted THEN Return(PyNone) ELSE Raise("RuntimeError", RebootError)
    ELSE Return(PyBool(rebooted))

_reconnect_anonymous(ph) == ManagementRoot(Credentials.hostname, "", "", ph.boot)
\* _reconnect: a new session with the credentials kept since construction
_reconnect(ph) ==
    ManagementRoot(Credentials.hostname, Credentials.username, Credentials.password, ph.boot)

\* One turn of the loop: sleep, reconnect, load the volume
RebootProbe ==
    /\ pc = "wait_reboot"
    /\ RebootLoopTest(now, end_time)
    /\ now' = AfterSleep(now, reboot_interval)
    /\ LET outcome == ProbeBody(phase, volumes, call.waits_for)
           then == AfterProbe(outcome)
       IN /\ session' = IF phase.up THEN _reconnect(phase) ELSE session
          /\ probes' = [made |-> probes.made + 1,
                        raised |-> probes.raised + IF outcome = "raised" THEN 1 ELSE 0,
                        load_on |-> IF phase.up THEN session' ELSE NotLoaded]
          /\ CASE then = "return" -> pc' = "idle" /\ result' = RebootOutcome(TRUE)
               [] then = "loop" -> UNCHANGED <<pc, result>>
               [] then = "propagate" ->
                    pc' = "idle" /\ result' = Raise("Exception", "unreachable")
    /\ UNCHANGED <<call, hostVars, applianceVars, cmds, end_time, uploadVars>>

RebootExpired ==
    /\ pc = "wait_reboot"
    /\ ~RebootLoopTest(now, end_time)
    /\ pc' = "idle"
    /\ result' = RebootOutcome(FALSE)
    /\ UNCHANGED <<call, hostVars, applianceVars, session, cmds, pollVars, uploadVars>>

\* The appliance acts on a reboot command it has not acted on yet: it goes down ...
ApplianceGoesDown ==
    /\ phase.up
    /\ phase.boot < RebootsIssued
    /\ phase' = [phase EXCEPT !.up = FALSE]
    /\ UNCHANGED <<ctlVars, hostVars, report, images, volumes, remoteFS, shell, session,
                   cmds, pollVars, uploadVars>>

NthReboot(n) ==
    cmds[CHOOSE k \in 1..Len(cmds) :
            /\ cmds[k].cmd = "reboot"
            /\ Cardinality({i \in 1..k : cmds[i].cmd = "reboot"}) = n]

\* ... and comes back, into the volume the command named if it named one that exists
ApplianceComesBack ==
    /\ ~phase.up
    /\ phase' = [up |-> TRUE, boot |-> phase.boot + 1]
    /\ LET target == NthReboot(phase.boot + 1).volume IN
       volumes' =
           IF target.t = "str" /\ _volume_exists(volumes, target.s)
           THEN [j \in 1..Len(volumes) |->
                    [volumes[j] EXCEPT !.active =
                        IF volumes[j].name = target.s THEN "true" ELSE "absent"]]
           ELSE volumes
    /\ UNCHANGED <<ctlVars, hostVars, report, images, remoteFS, shell, session,
                   cmds, pollVars, uploadVars>>

VolumeLists_reboot ==
    {<<VolumeOld("HD1.1", "true"), VolumeOld("HD1.2", "absent")>>,
     <<VolumeOld("HD1.1", "false"), VolumeOld("HD1.2", "true")>>,
     <<VolumeOld("HD1.1", "absent"), VolumeOld("HD1.2", "false")>>,
     <<VolumeOld("HD1.1", "true")>>}

InitReboot ==
    /\ pc = "idle"
    /\ call = [op |-> "none"]
    /\ result = NoResult
    /\ pyMajor \in {2, 3}
    /\ report = PyNone
    /\ images = <<>>
    /\ volumes \in VolumeLists_reboot
    /\ NoFiles
    /\ Constructed
    /\ NoPoll
    /\ NoUpload

NextReboot ==
    \/ RebootCall
    \/ WaitForDeviceRebootCall
    \/ RebootProbe
    \/ RebootExpired
    \/ ApplianceGoesDown
    \/ ApplianceComesBack

SpecReboot == InitReboot /\ [][NextReboot]_vars

RebootSucceeded ==
    /\ pc = "idle"
    /\ \/ call.op = "reboot" /\ result.kind = "return"
       \/ call.op = "_wait_for_device_reboot" /\ Returned(result, TRUE)

RebootTimedOut ==
    /\ pc = "idle"
    /\ \/ call.op = "reboot" /\ Raised(result, "RuntimeError") /\ result.msg = RebootError
       \/ call.op = "_wait_for_device_reboot" /\ Returned(result, FALSE)

\* C4: when reconnect-and-load raises on the first K probes and the next probe finds
\* the target volume active, one probe every 5 s, reboot() succeeds if K * 5 < timeout
\* (600 s) and otherwise ends with the reboot-timeout error.
C4_RebootPolling ==
    /\ (RebootSucceeded /\ probes.raised = probes.made - 1) =>
            probes.raised * reboot_interval < end_time
    /\ (RebootTimedOut /\ probes.raised = probes.made) =>
            probes.raised * reboot_interval >= end_time

\* reboot() succeeds on the last probe the deadline allows, after K = 119 probes raised.
C4_Witness ==
    /\ RebootSucceeded
    /\ call.op = "reboot"
    /\ probes.raised = probes.made - 1
    /\ (probes.raised + 1) * reboot_interval = reboot_timeout

\* C5: reboot(volume), for a named target volume, issues the plain reboot (no volume
\* argument) if the target was the active volume when reboot was called, and the
\* reboot naming the target otherwise; either way the polling waits for the target.
C5_CommandByActiveVolume ==
    (call.op = "reboot" /\ call.volume.t = "str" /\ Len(cmds) > call.base) =>
        LET command == cmds[call.base + 1] IN
        /\ command.cmd = "reboot"
        /\ IF call.volume.s \in call.active_then
           THEN command.volume.t = "None"
           ELSE PyEq(command.volume, call.volume) /\ command.volume.t = "str"
        /\ PyEq(call.waits_for, call.volume)

\* The target was already active: a plain reboot went out and the polling has begun.
C5_Witness ==
    /\ call.op = "reboot"
    /\ call.volume.t = "str"
    /\ call.volume.s \in call.active_then
    /\ Len(cmds) > call.base
    /\ cmds[call.base + 1].volume.t = "None"
    /\ probes.made > 0

\* C6: an error raised by the reconnect-and-load step of a probe never ends the
\* polling and never reaches the caller; the polling ends only with success or, once
\* the deadline has passed, with the reboot-timeout failure.
C6_ProbeErrorsSwallowed ==
    [][/\ (pc = "wait_reboot" /\ probes'.raised > probes.raised) =>
            (pc' = "wait_reboot" /\ result' = result)
       /\ (pc = "wait_reboot" /\ pc' = "idle") =>
            \/ result' = RebootOutcome(TRUE)
            \/ result' = RebootOutcome(FALSE) /\ ~(now < end_time)]_vars

\* reboot() returned normally although several probes had raised on the way.
C6_Witness ==
    /\ pc = "idle"
    /\ call.op = "reboot"
    /\ result.kind = "return"
    /\ probes.raised >= 2
    /\ probes.made > probes.raised + 1

\* C17: every probe of the reboot polling first re-establishes the session, with the
\* host, username and password given at construction, and loads the target volume
\* only on that new session; a probe for which the session cannot be re-established
\* loads nothing on the old session, keeps it, and counts as 'not yet'.
C17_ReconnectBeforeLoad ==
    [][(pc = "wait_reboot" /\ probes'.made = probes.made + 1) =>
          IF phase.up
          THEN /\ session' = ManagementRoot(Credentials.hostname, Credentials.username,
                                            Credentials.password, phase.boot)
               /\ probes'.load_on = session'
          ELSE /\ session' = session
               /\ probes'.load_on = NotLoaded
               /\ probes'.raised = probes.raised + 1
               /\ pc' = "wait_reboot" /\ result' = result]_vars

\* After probes that could not reconnect, a probe opened a session in the appliance's
\* new boot and loaded the volume on it.
C17_Witness ==
    /\ call.op = "reboot"
    /\ probes.raised >= 2
    /\ session.boot = call.boot_then + 1
    /\ probes.load_on = session

\* C20 (as claimed): reboot(volume) returns successfully only if the appliance has
\* restarted since the reboot command was issued; a probe that finds the target
\* volume active while the appliance has not yet gone down is not taken as completion.
C20_SuccessMeansRestarted ==
    (RebootSucceeded /\ call.op = "reboot") => phase.boot > call.boot_then

----------------------------------------------------------------------------
(* set_boot_options and reboot on one appliance: an appliance with 5.0 GB free, the *)
(* image A.iso and two volumes, on which installs and reboots follow one another.   *)

MaxPollingCmds == 1

InitPolling ==
    /\ pc = "idle"
    /\ call = [op |-> "none"]
    /\ result = NoResult
    /\ pyMajor = 3
    /\ report \in {Report(<<"5", ".", "0">>), Report(<<"7", ".", "5", "0">>)}
    /\ images = <<ImageA>>
    /\ volumes \in {<<VolumeOld("HD1.1", "true"), VolumeOld("HD1.2", "absent")>>,
                    <<VolumeOld("HD1.1", "true")>>}
    /\ NoFiles
    /\ Constructed
    /\ NoPoll
    /\ NoUpload

\* The calls that issue a command, while the run has commands left
SetBootOptionsNext == Len(cmds) < MaxPollingCmds /\ SetBootOptionsCall
RebootNext == Len(cmds) < MaxPollingCmds /\ RebootCall

NextPolling ==
    \/ SetBootOptionsNext
    \/ WaitForImageInstalledCall
    \/ InstallProbe
    \/ InstallExpired
    \/ ApplianceFinishesInstall
    \/ RebootNext
    \/ WaitForDeviceRebootCall
    \/ RebootProbe
    \/ RebootExpired
    \/ ApplianceGoesDown
    \/ ApplianceComesBack

SpecPolling == InitPolling /\ [][NextPolling]_vars

Polling == pc \in {"wait_install", "wait_reboot"}

\* The commands the call in progress, or the last call, has issued
IssuedByCall == SubSeq(cmds, call.base + 1, Len(cmds))

\* C12: within one call no command is retried: set_boot_options issues the install
\* command at most once and reboot the reboot command at most once, nothing is issued
\* while the call polls, and a call whose polling times out ends with its timeout
\* error having issued nothing after its one command (no retry, no rollback).
C12_NoRetry ==
    [][/\ call'.op = "set_boot_options" =>
            Len(IssuedByCall') <= 1 /\ \A k \in 1..Len(IssuedByCall') : IssuedByCall'[k].cmd = "install"
       /\ call'.op = "reboot" =>
            Len(IssuedByCall') <= 1 /\ \A k \in 1..Len(IssuedByCall') : IssuedByCall'[k].cmd = "reboot"
       /\ Polling => cmds' = cmds
       /\ (pc = "wait_install" /\ pc' = "idle" /\ call.op = "set_boot_options"
              /\ ~(now < end_time)) =>
            result' = Raise("RuntimeError", InstallError)
       /\ (pc = "wait_reboot" /\ pc' = "idle" /\ call.op = "reboot"
              /\ ~(now < end_time)) =>
            result' = Raise("RuntimeError", RebootError)]_vars

\* reboot has timed out after the one reboot command it issued.
C12_Witness ==
    /\ RebootTimedOut
    /\ call.op = "reboot"
    /\ Len(IssuedByCall) = 1
    /\ probes.made = 120

\* C15 (as claimed): both polling loops report success only from an observation made
\* before the deadline; no probe made at or after the deadline turns the result into
\* success, also when the timeout is shorter than one polling interval.
C15_SuccessBeforeDeadline ==
    (InstallSucceeded \/ RebootSucceeded) => now < end_time

\* C15 (amended): the deadline is tested before the sleep, not before the probe: a
\* loop reports success only from a probe whose preceding sleep began before the
\* deadline, so the probe itself is made less than one interval after the deadline;
\* a loop that reports the timeout does so at or after the deadline; a call given a
\* timeout of zero makes no probe.
C15_SuccessWithinOneInterval ==
    /\ InstallSucceeded =>
            probes.made >= 1 /\ now - install_interval < end_time
    /\ RebootSucceeded =>
            probes.made >= 1 /\ now - reboot_interval < end_time
    /\ (Polling \/ InstallSucceeded \/ RebootSucceeded) =>
            now = probes.made * (IF call.op \in {"reboot", "_wait_for_device_reboot"}
                                 THEN reboot_interval ELSE install_interval)
    /\ (InstallTimedOut \/ RebootTimedOut) => now >= end_time
    /\ (Polling /\ end_time = 0) => probes.made = 0

\* _wait_for_image_installed, given a timeout shorter than one interval, returned
\* True from its one probe, made after the deadline.
C15_Witness ==
    /\ InstallSucceeded
    /\ call.op = "_wait_for_image_installed"
    /\ 0 < end_time /\ end_time < install_interval
    /\ now > end_time

----------------------------------------------------------------------------
(* file_copy and _upload_image: the image is sent chunk by chunk.  The chunk size   *)
(* of the driver, 512 * 1024 bytes, is stood for by a few bytes; the file is a      *)
(* sequence of bytes that does not change while it is uploaded.                     *)

MaxFileSize == 6
MaxChunk == 3

Min(a, b) == IF a < b THEN a ELSE b

\* fileobj.read(n): the bytes from the read position on, at most n of them
Read(f, n) == SubSeq(f.bytes, f.pos + 1, Min(f.pos + n, Len(f.bytes)))

\* Lines 306-309: end = fileobj.tell(); if end < chunk_size: end = size
RangeEnd_unclamped(start, tell, chunk_size, size) == start + chunk_size
RangeEnd(start, tell, chunk_size, size) == IF tell < chunk_size THEN size ELSE tell

ContentRange_exclusive_end(start, end, size) ==
    [first |-> start, last |-> end, total |-> size]
\* "{}-{}/{}".format(start, end - 1, size)
ContentRange(start, end, size) == [first |-> start, last |-> end - 1, total |-> size]

InitUpload ==
    /\ pc = "idle"
    /\ call = [op |-> "none"]
    /\ result = NoResult
    /\ pyMajor \in {2, 3}
    /\ report = PyNone
    /\ NoInventory
    /\ NoFiles
    /\ Constructed
    /\ NoPoll
    /\ fileobj \in [bytes : SeqsUpTo({0, 1}, MaxFileSize), pos : {0}]
    /\ upload \in [chunk_size : 1..MaxChunk, size : {0}, start : {0}]
    /\ requests = <<>>

\* file_copy(src, dest): refuses a destination; else _upload_image up to the loop
FileCopyCall ==
    /\ pc = "idle"
    /\ \E dest \in {PyNone, PyStr("/tmp")} :
        /\ call' = [op |-> "file_copy", dest |-> dest, base |-> Len(cmds)]
        /\ IF dest.t # "None"
           THEN /\ result' = Raise("NotImplementedError",
                        "Support only for images - destination is always /shared/images")
                /\ UNCHANGED <<pc, uploadVars>>
           ELSE /\ upload' = [upload EXCEPT !.size = Len(fileobj.bytes), !.start = 0]
                /\ fileobj' = [fileobj EXCEPT !.pos = 0]
                /\ requests' = <<>>
                /\ pc' = "uploading"
                /\ result' = NoResult
    /\ UNCHANGED <<hostVars, applianceVars, session, cmds, pollVars>>

\* One turn of the loop: read a chunk; stop at the end of the file, else POST it
UploadChunk ==
    /\ pc = "uploading"
    /\ LET payload == Read(fileobj, upload.chunk_size)
           tell == fileobj.pos + Len(payload)
           end == RangeEnd(upload.start, tell, upload.chunk_size, upload.size)
       IN IF payload = <<>>
          THEN /\ pc' = "idle"
               /\ result' = Return(PyNone)
               /\ UNCHANGED uploadVars
          ELSE /\ fileobj' = [fileobj EXCEPT !.pos = tell]
               /\ requests' = Append(requests,
                     [content_range |-> ContentRange(upload.start, end, upload.size),
                      data |-> payload])
               /\ upload' = [upload EXCEPT !.start = @ + Len(payload)]
               /\ UNCHANGED <<pc, result>>
    /\ UNCHANGED <<call, hostVars, applianceVars, session, cmds, pollVars>>

\* requests.post raises (the connection fails): the error leaves file_copy
UploadPostFails ==
    /\ pc = "uploading"
    /\ Read(fileobj, upload.chunk_size) # <<>>
    /\ fileobj' = [fileobj EXCEPT !.pos = @ + Len(Read(fileobj, upload.chunk_size))]
    /\ pc' = "idle"
    /\ result' = Raise("ConnectionError", "post failed")
    /\ UNCHANGED <<call, hostVars, applianceVars, session, cmds, pollVars, upload, requests>>

NextUpload == FileCopyCall \/ UploadChunk \/ UploadPostFails

SpecUpload == InitUpload /\ [][NextUpload]_vars

UploadDone == pc = "idle" /\ call.op = "file_copy" /\ result.kind = "return"

RECURSIVE Concat(_)
Concat(reqs) == IF reqs = <<>> THEN <<>> ELSE reqs[1].data \o Concat(Tail(reqs))

CeilDiv(a, b) == (a + b - 1) \div b

\* C7: a file of size S uploaded with chunk size C makes exactly ceil(S/C) requests;
\* each but the last carries exactly C bytes; the last one declares S-1 as the end of
\* its range; the bodies, in order, concatenate to the file.
C7_UploadChunking ==
    UploadDone =>
        LET S == Len(fileobj.bytes)
            C == upload.chunk_size
            n == Len(requests)
        IN /\ n = CeilDiv(S, C)
           /\ \A i \in 1..(n - 1) : Len(requests[i].data) = C
           /\ n > 0 => requests[n].content_range.last = S - 1
           /\ Concat(requests) = fileobj.bytes

\* An upload of several chunks whose last chunk is a short one.
C7_Witness ==
    /\ UploadDone
    /\ Len(requests) >= 3
    /\ Len(requests[Len(requests)].data) < upload.chunk_size

\* The number of bytes carried by the requests before the i-th
SentBefore(i) == Len(Concat(SubSeq(requests, 1, i - 1)))

\* C16: the Content-Range of every request describes exactly the bytes of its body:
\* its start is the offset in the file of the body's first byte, its inclusive end the
\* offset of the body's last byte, its total the file size S; the ranges of successive
\* requests are contiguous and do not overlap, and those of a finished upload cover
\* 0..S-1.
C16_ContentRangeExact ==
    LET S == Len(fileobj.bytes)
        n == Len(requests)
    IN /\ \A i \in 1..n :
            LET range == requests[i].content_range
                data == requests[i].data
            IN /\ Len(data) >= 1
               /\ range.first = SentBefore(i)
               /\ range.last = range.first + Len(data) - 1
               /\ range.total = S
               /\ data = SubSeq(fileobj.bytes, range.first + 1, range.last + 1)
               /\ i > 1 => range.first = requests[i - 1].content_range.last + 1
       /\ UploadDone => SentBefore(n + 1) = S

\* A file of five bytes went up in chunks of three: bytes 0-2, then bytes 3-4.
C16_Witness ==
    /\ UploadDone
    /\ Len(requests) = 2
    /\ requests[1].content_range = [first |-> 0, last |-> 2, total |-> 5]
    /\ requests[2].content_range = [first |-> 3, last |-> 4, total |-> 5]

----------------------------------------------------------------------------
(* The operations the driver does not implement *)

UnsupportedOps ==
    {"config", "config_list", "show", "show_list", "save", "checkpoint", "rollback",
     "backup_running_config", "facts", "running_config", "startup_config"}

NotSupported_returns_none(op) == Return(PyNone)
\* The body of each of them: raise NotImplementedError
NotSupported(op) == Raise("NotImplementedError", "")

UnsupportedCall ==
    /\ pc = "idle"
    /\ \E op \in UnsupportedOps :
        /\ call' = [op |-> op, base |-> Len(cmds)]
        /\ result' = NotSupported(op)
    /\ ResetPoll
    /\ UNCHANGED <<pc, hostVars, applianceVars, session, cmds, uploadVars>>

\* An appliance holding an image, local and remote copies of A.iso in every state,
\* and a file of up to MaxChunk bytes to upload
InitUnsupported ==
    /\ pc = "idle"
    /\ call = [op |-> "none"]
    /\ result = NoResult
    /\ pyMajor = 3
    /\ report = PyNone
    /\ images = <<ImageA>>
    /\ volumes = <<VolumeOld("HD1.1", "true")>>
    /\ localFS \in {fs \in [LocalPaths -> Contents \cup {NoFile}] :
                        fs["/tmp/B.iso"] = NoFile}
    /\ remoteFS \in {fs \in [ImageNames -> Contents \cup {NoFile}] :
                         fs["B.iso"] = NoFile}
    /\ shell \in [ls : {"ok", "none"}, md5sum : {"ok", "none", "blank"}]
    /\ Constructed
    /\ NoPoll
    /\ fileobj \in [bytes : SeqsUpTo({0}, MaxChunk), pos : {0}]
    /\ upload \in [chunk_size : 1..MaxChunk, size : {0}, start : {0}]
    /\ requests = <<>>

NextUnsupported ==
    \/ UnsupportedCall
    \/ FileCopyCall
    \/ UploadChunk
    \/ UploadPostFails
    \/ FileCopyRemoteExistsCall

SpecUnsupported == InitUnsupported /\ [][NextUnsupported]_vars

\* The call being made is one of the operations outside the implemented scope
CallsUnsupported ==
    /\ pc = "idle"
    /\ call'.op \in UnsupportedOps \cup {"file_copy", "file_copy_remote_exists"}
    /\ call'.op \in {"file_copy", "file_copy_remote_exists"} => call'.dest.t = "str"

\* C14: every operation outside the implemented scope (config, config_list, show,
\* show_list, save, checkpoint, rollback, backup_running_config, facts,
\* running_config, startup_config, and file_copy / file_copy_remote_exists with a
\* destination) raises NotImplementedError in every state, issues no command and no
\* upload request, and leaves the session and the appliance as they were.
C14_NotSupported ==
    [][CallsUnsupported =>
          /\ pc' = "idle"
          /\ Raised(result', "NotImplementedError")
          /\ cmds' = cmds
          /\ requests' = requests
          /\ session' = session
          /\ UNCHANGED applianceVars]_vars

\* rollback was refused after an upload had sent requests.
C14_Witness ==
    /\ pc = "idle"
    /\ call.op = "rollback"
    /\ Raised(result, "NotImplementedError")
    /\ Len(requests) >= 2

----------------------------------------------------------------------------
(* Termination of the polling.  The driver is one thread: while a call polls, its   *)
(* next turn of the loop, or its leaving the loop, is taken sooner or later, every  *)
(* remote call returning and every sleep ending.                                    *)

FairSpecPolling ==
    /\ SpecPolling
    /\ WF_vars(InstallProbe) /\ WF_vars(InstallExpired)
    /\ WF_vars(RebootProbe) /\ WF_vars(RebootExpired)

PollInterval ==
    IF call.op \in {"reboot", "_wait_for_device_reboot"}
    THEN reboot_interval ELSE install_interval

ProbesBounded ==
    /\ probes.made <= CeilDiv(end_time, PollInterval)
    /\ call.op = "set_boot_options" => probes.made <= 45
    /\ call.op = "reboot" => probes.made <= 120

\* C18: as long as every remote call returns and every sleep ends, set_boot_options
\* and reboot, once they poll, always come to an end, with success or with their
\* timeout error, and never make more probes than ceil(timeout / interval): at most
\* 45 for an install, at most 120 for a reboot.  (A call that fails before it polls
\* ends at once, in the step that makes it.)
C18_TerminatesWithinBound ==
    /\ []ProbesBounded
    /\ Polling ~> (InstallSucceeded \/ InstallTimedOut \/ RebootSucceeded \/ RebootTimedOut)

\* set_boot_options has ended with the timeout error after its 45th probe.
C18_Witness ==
    /\ InstallTimedOut
    /\ call.op = "set_boot_options"
    /\ probes.made = 45

====
